---- MODULE Spec2Model ----
(***************************************************************************)
(* A model of src/main.go: the CRUD layer over one MySQL table.            *)
(*                                                                         *)
(*   - PrepareWhere / PrepareWhereWithRootLogic : the filter compiler;     *)
(*   - Create / Update / Delete and UserCRUD.Delete : the record writers;  *)
(*   - Synchronize : the schema synchronizer, one step per round trip to   *)
(*     the store, so that two calls can interleave.                        *)
(*                                                                         *)
(* Go strings that the code takes apart or puts together (filter keys,     *)
(* the predicate) are sequences of one-character strings; Str turns such a *)
(* sequence into a TLA+ string.  A Go map is a sequence of entries with    *)
(* distinct keys, and `range` over it visits the entries in any order.     *)
(* The store is the abstract capability set the code calls (Exec, Query,   *)
(* QueryRow): a statement either fails and changes nothing, or succeeds    *)
(* and has the effect its text asks for.                                   *)
(***************************************************************************)
EXTENDS Integers, Sequences, FiniteSets, TLC

VARIABLES
    Structure,  \* CRUD.Structure: column name -> properties
    Table,      \* CRUD.Table
    writer,     \* "crud" for a plain *CRUD, "user" for a *UserCRUD
    filter,     \* the filter map handed to PrepareWhere
    res1,       \* what PrepareWhere returned under one visiting order
    res2,       \* what it returned under another visiting order
    lastOp,     \* the last Create/Update/Delete call: arguments, result, statements
    nOps,       \* number of writer calls made so far
    live,       \* the live table of the store: absent, or column name -> metadata
    live0,      \* the live table before the first Synchronize
    procs,      \* the callers that run Synchronize
    pc,         \* per caller: position inside Synchronize
    exists,     \* per caller: the count the exists query was scanned into
    cur,        \* per caller: currentColumns, once made, as SHOW COLUMNS filled it
    todo,       \* per caller: descriptor columns the reconcile loop has not visited
    ret,        \* per caller: what the last Synchronize returned
    calls,      \* per caller: number of Synchronize calls started
    ddl         \* every statement Synchronize handed to Exec, in order

vars == <<Structure, Table, writer, filter, res1, res2, lastOp, nOps,
          live, live0, procs, pc, exists, cur, todo, ret, calls, ddl>>

whereVars == <<filter, res1, res2>>
writeVars == <<lastOp, nOps>>
syncVars  == <<live, live0, procs, pc, exists, cur, todo, ret, calls, ddl>>

----------------------------------------------------------------------------
(* Bounds of the model.                                                    *)

MaxNodes == 3   \* entries (leaves and groups, all levels) of a filter tree
MaxOps   == 3   \* writer calls in one behaviour
MaxCalls == 2   \* Synchronize calls one caller makes

----------------------------------------------------------------------------
(* Strings as sequences of characters.                                     *)

Range(s) == {s[i] : i \in DOMAIN s}

RECURSIVE Str(_)
Str(cs) == IF cs = <<>> THEN "" ELSE Head(cs) \o Str(Tail(cs))

HasPrefix(s, p) == Len(s) >= Len(p) /\ SubSeq(s, 1, Len(p)) = p

HasSuffix(s, suf) ==
    Len(s) >= Len(suf) /\ SubSeq(s, Len(s) - Len(suf) + 1, Len(s)) = suf

TrimSuffix(s, suf) ==
    IF HasSuffix(s, suf) THEN SubSeq(s, 1, Len(s) - Len(suf)) ELSE s

RECURSIVE Join(_, _)
Join(parts, sep) ==
    IF parts = <<>> THEN <<>>
    ELSE IF Len(parts) = 1 THEN parts[1]
    ELSE parts[1] \o sep \o Join(Tail(parts), sep)

\* the multiset of the elements of a sequence
BagOf(s) == [x \in Range(s) |-> Cardinality({i \in DOMAIN s : s[i] = x})]

RECURSIVE Perms(_)
Perms(s) ==
    IF s = <<>> THEN {<<>>}
    ELSE UNION {{<<s[i]>> \o r :
                   r \in Perms(SubSeq(s, 1, i - 1) \o SubSeq(s, i + 1, Len(s)))} :
                i \in DOMAIN s}

----------------------------------------------------------------------------
(* Descriptors.  Of the property bag of a column the code reads TYPE,      *)
(* NOT_NULL, DEFAULT and AUTO_INCREMENT; NAME, INDEX and UNIQUE are never  *)
(* read and are left out.                                                  *)

Props(type, notNull, default, autoInc) ==
    [TYPE |-> type, NOT_NULL |-> notNull, DEFAULT |-> default,
     AUTO_INCREMENT |-> autoInc]

\* NewUserCRUD: the structure of the users table
userStructure ==
    [c \in {"id", "name", "email"} |->
        IF c = "id" THEN Props("int", "true", "", "true")
        ELSE Props("varchar(255)", "true", "", "false")]

----------------------------------------------------------------------------
(* The filter compiler.                                                    *)
(*                                                                         *)
(* A value of type `any` is [t, s, n, m]: its dynamic type t, and the      *)
(* string s, the int n or the map m it holds.  A map is a sequence of      *)
(* entries [key, value] with distinct keys, written in the order in which  *)
(* `range` visits it.                                                      *)

StrV(cs)  == [t |-> "string", s |-> cs,   n |-> 0, m |-> <<>>]
IntV(i)   == [t |-> "int",    s |-> <<>>, n |-> i, m |-> <<>>]
MapV(es)  == [t |-> "map",    s |-> <<>>, n |-> 0, m |-> es]

Digit(d) ==
    CASE d = 0 -> "0" [] d = 1 -> "1" [] d = 2 -> "2" [] d = 3 -> "3"
      [] d = 4 -> "4" [] d = 5 -> "5" [] d = 6 -> "6" [] d = 7 -> "7"
      [] d = 8 -> "8" [] d = 9 -> "9"

RECURSIVE Itoa(_)
Itoa(i) == IF i < 10 THEN <<Digit(i)>> ELSE Itoa(i \div 10) \o <<Digit(i % 10)>>

\* fmt's %v of a scalar: a string as it is, a non-negative int in decimal
FmtV(value) ==
    CASE value.t = "string" -> value.s
      [] value.t = "int"    -> Itoa(value.n)

OR_TAG  == <<"[", "O", "R", "]">>
AND_TAG == <<"[", "A", "N", "D", "]">>
OR_LOGIC  == <<"O", "R">>
AND_LOGIC == <<"A", "N", "D">>
LIKE    == <<"L", "I", "K", "E">>

\* the state of one run of the loop of PrepareWhereWithRootLogic; panic is
\* set when a type assertion failed and the call unwinds
NoConditions == [conditions |-> <<>>, errors |-> <<>>, panic |-> FALSE]

Panicked(st) == [st EXCEPT !.panic = TRUE]

UnknownField(column) ==
    "field '" \o Str(column) \o "' does not exist in the structure"

\* LeafStep with `errors = []error{err}` where the code appends
LeafStepAssign(structure, st, key, value) ==
    LET column ==
            IF HasSuffix(key, <<">">>) THEN TrimSuffix(key, <<">">>)
            ELSE IF HasSuffix(key, <<"<">>) THEN TrimSuffix(key, <<"<">>)
            ELSE IF HasSuffix(key, <<"=">>) THEN TrimSuffix(key, <<"=">>)
            ELSE IF HasSuffix(key, <<"%">>) THEN TrimSuffix(key, <<"%">>)
            ELSE key
        comparison ==
            IF HasSuffix(key, <<">">>) THEN <<">">>
            ELSE IF HasSuffix(key, <<"<">>) THEN <<"<">>
            ELSE IF HasSuffix(key, <<"=">>) THEN <<"=">>
            ELSE IF HasSuffix(key, <<"%">>) THEN LIKE
            ELSE <<"=">>
        isLike ==
            /\ ~HasSuffix(key, <<">">>) /\ ~HasSuffix(key, <<"<">>)
            /\ ~HasSuffix(key, <<"=">>) /\ HasSuffix(key, <<"%">>)
    IN  IF isLike /\ value.t # "string" THEN Panicked(st)
        ELSE IF Str(column) \notin DOMAIN structure
             THEN [st EXCEPT !.errors = <<UnknownField(column)>>]
        ELSE LET v == IF isLike THEN StrV(<<"%">> \o value.s \o <<"%">>)
                      ELSE value
             IN  [st EXCEPT !.conditions =
                    Append(@, column \o <<" ">> \o comparison \o <<" ", "\"">>
                                \o FmtV(v) \o <<"\"">>)]

\* the else branch of the loop body: an entry that is no group
LeafStep(structure, st, key, value) ==
    LET column ==
            IF HasSuffix(key, <<">">>) THEN TrimSuffix(key, <<">">>)
            ELSE IF HasSuffix(key, <<"<">>) THEN TrimSuffix(key, <<"<">>)
            ELSE IF HasSuffix(key, <<"=">>) THEN TrimSuffix(key, <<"=">>)
            ELSE IF HasSuffix(key, <<"%">>) THEN TrimSuffix(key, <<"%">>)
            ELSE key
        comparison ==
            IF HasSuffix(key, <<">">>) THEN <<">">>
            ELSE IF HasSuffix(key, <<"<">>) THEN <<"<">>
            ELSE IF HasSuffix(key, <<"=">>) THEN <<"=">>
            ELSE IF HasSuffix(key, <<"%">>) THEN LIKE
            ELSE <<"=">>
        isLike ==
            /\ ~HasSuffix(key, <<">">>) /\ ~HasSuffix(key, <<"<">>)
            /\ ~HasSuffix(key, <<"=">>) /\ HasSuffix(key, <<"%">>)
    IN  \* value.(string) of the LIKE branch
        IF isLike /\ value.t # "string" THEN Panicked(st)
        ELSE IF Str(column) \notin DOMAIN structure
             THEN [st EXCEPT !.errors = Append(@, UnknownField(column))]
        ELSE LET v == IF isLike THEN StrV(<<"%">> \o value.s \o <<"%">>)
                      ELSE value
             IN  [st EXCEPT !.conditions =
                    Append(@, column \o <<" ">> \o comparison \o <<" ", "\"">>
                                \o FmtV(v) \o <<"\"">>)]

\* the two group branches, once the recursive call has returned r
GroupStep(st, r) ==
    IF r.panic THEN Panicked(st)
    ELSE [st EXCEPT
            !.errors = IF Len(r.errs) > 0 THEN @ \o r.errs ELSE @,
            !.conditions = IF r.pred # <<>>
                           THEN Append(@, <<"(">> \o r.pred \o <<")">>)
                           ELSE @]

\* what the function returns after the loop
Finish(st, logic) ==
    IF st.panic THEN [panic |-> TRUE, pred |-> <<>>, errs |-> <<>>]
    ELSE IF Len(st.conditions) > 0
         THEN [panic |-> FALSE,
               pred  |-> Join(st.conditions, <<" ">> \o logic \o <<" ">>),
               errs  |-> <<>>]
    ELSE [panic |-> FALSE, pred |-> <<>>, errs |-> st.errors]

IsOrKey(key)  == key = OR_TAG \/ HasPrefix(key, OR_TAG)
IsAndKey(key) == key = AND_TAG \/ HasPrefix(key, AND_TAG)

RECURSIVE PrepareWhereWithRootLogic(_, _, _), VisitEntries(_, _, _)

\* the loop over the entries, in the order in which `range` visits them
VisitEntries(structure, entries, st) ==
    IF entries = <<>> \/ st.panic THEN st
    ELSE LET key   == Head(entries).key
             value == Head(entries).value
             next  ==
                 IF IsOrKey(key) \/ IsAndKey(key)
                 THEN \* value.(map[string]any)
                      IF value.t # "map" THEN Panicked(st)
                      ELSE GroupStep(st,
                             PrepareWhereWithRootLogic(structure, value.m,
                                IF IsOrKey(key) THEN OR_LOGIC ELSE AND_LOGIC))
                 ELSE LeafStep(structure, st, key, value)
         IN  VisitEntries(structure, Tail(entries), next)

PrepareWhereWithRootLogic(structure, entries, logic) ==
    Finish(VisitEntries(structure, entries, NoConditions), logic)

PrepareWhere(structure, entries) ==
    PrepareWhereWithRootLogic(structure, entries, AND_LOGIC)

\* every order in which `range` can visit a map and the maps inside it
RECURSIVE Orders(_), Nested(_)
Nested(entries) ==
    IF entries = <<>> THEN {<<>>}
    ELSE LET heads == IF Head(entries).value.t = "map"
                      THEN {[Head(entries) EXCEPT !.value.m = o] :
                              o \in Orders(Head(entries).value.m)}
                      ELSE {Head(entries)}
         IN  {<<h>> \o r : h \in heads, r \in Nested(Tail(entries))}

Orders(entries) == UNION {Perms(s) : s \in Nested(entries)}

----------------------------------------------------------------------------
(* The filters the model compiles: every map of at most MaxNodes entries,  *)
(* nested maps counted, over the keys below; a column key holds a scalar   *)
(* and a group key holds a map, as the filter language asks.               *)

LeafKeys ==
    << <<"i", "d">>,
       <<"i", "d", ">">>,
       <<"i", "d", "<">>,
       <<"i", "d", "=">>,
       <<"n", "a", "m", "e", "%">>,
       <<"g", "h", "o", "s", "t">>,
       <<"n", "o", "p", "e", "<">> >>

GroupKeys ==
    << OR_TAG, AND_TAG, AND_TAG \o <<"3">> >>

FilterKeys == LeafKeys \o GroupKeys

Scalars == {StrV(<<"B", "o", "b">>), IntV(12)}

RECURSIVE Size(_)
Size(entries) ==
    IF entries = <<>> THEN 0
    ELSE 1 + Size(Head(entries).value.m) + Size(Tail(entries))

\* the maps of at most n entries whose keys are FilterKeys[k], FilterKeys[k+1], ...
RECURSIVE Filters(_, _)
Filters(n, k) ==
    IF n = 0 \/ k > Len(FilterKeys) THEN {<<>>}
    ELSE LET key  == FilterKeys[k]
             vals == IF k <= Len(LeafKeys) THEN Scalars
                     ELSE {MapV(m) : m \in Filters(n - 1, 1)}
         IN  Filters(n, k + 1) \cup
             UNION {{<<[key |-> key, value |-> v]>> \o rest :
                       rest \in Filters(n - 1 - Size(v.m), k + 1)} : v \in vals}

WhereStructures ==
    {userStructure, [c \in {"id"} |-> Props("int", "true", "", "true")]}

NoResult == [panic |-> FALSE, pred |-> <<>>, errs |-> <<>>, called |-> FALSE]

Returned(r) == [panic |-> r.panic, pred |-> r.pred, errs |-> r.errs, called |-> TRUE]

----------------------------------------------------------------------------
(* The record writers.                                                     *)
(*                                                                         *)
(* The data map of Create and Update is a function from the keys it holds  *)
(* to their values; NIL is the nil value, which a key may hold.            *)

NIL == "<nil>"

NoError == [kind |-> "nil", text |-> ""]

\* a statement handed to DB.Exec: what it is, the query text and its arguments
Statement(kind, query, args) == [kind |-> kind, query |-> query, args |-> args]

\* the record of one DB.Exec: the statement, and whether the store carried it out
Executed(stmt, ok) ==
    [kind |-> stmt.kind, query |-> stmt.query, args |-> stmt.args, ok |-> ok]

\* strings.Join of a sequence of strings
RECURSIVE JoinStr(_, _)
JoinStr(parts, sep) ==
    IF parts = <<>> THEN ""
    ELSE IF Len(parts) = 1 THEN parts[1]
    ELSE parts[1] \o sep \o JoinStr(Tail(parts), sep)

\* the orders in which `range` can visit the keys of a map
KeyOrders(keys) ==
    {o \in [1..Cardinality(keys) -> keys] : \A i, j \in DOMAIN o : o[i] = o[j] => i = j}

\* MissingRequired without the test of DEFAULT
MissingRequiredNoDefault(structure, data) ==
    {col \in DOMAIN structure :
        /\ structure[col].NOT_NULL = "true"
        /\ structure[col].AUTO_INCREMENT # "true"
        /\ col \notin DOMAIN data}

\* the columns for which the check of Create and Update can return:
\* NOT_NULL, no DEFAULT, not AUTO_INCREMENT, and no key in data
MissingRequired(structure, data) ==
    {col \in DOMAIN structure :
        /\ structure[col].NOT_NULL = "true"
        /\ structure[col].DEFAULT = ""
        /\ structure[col].AUTO_INCREMENT # "true"
        /\ col \notin DOMAIN data}

CannotBeNull(col) == [kind |-> "error", text |-> "field '" \o col \o "' cannot be null"]

\* what DB.Exec returns: nil, or the error of the store
ExecResult(ok) == IF ok THEN NoError ELSE [kind |-> "store", text |-> "exec failed"]

\* the INSERT of Create, its columns in the order `range` visited them
InsertStatement(table, data, columns) ==
    Statement("insert", "INSERT INTO " \o table \o " (" \o JoinStr(columns, ", ")
                \o ") VALUES (" \o JoinStr([i \in DOMAIN columns |-> "?"], ", ") \o ")",
              [i \in DOMAIN columns |->
                  IF columns[i] \in DOMAIN data THEN data[columns[i]] ELSE NIL])

\* the UPDATE of Update, one set clause per key of data
UpdateStatement(table, id, data, keys) ==
    Statement("update", "UPDATE " \o table \o " SET "
                \o JoinStr([i \in DOMAIN keys |-> keys[i] \o " = ?"], ", ")
                \o " WHERE id = ?",
              [i \in DOMAIN keys |-> data[keys[i]]] \o <<id>>)

DeleteStatement(table, id) ==
    Statement("delete", "DELETE FROM " \o table \o " WHERE id = ?", <<id>>)

\* Forbidden with the test left out
ForbiddenNever(id) == FALSE

\* UserCRUD.Delete: the id that may not be deleted

Forbidden(id) == id = "1"

DeletionForbidden ==
    [kind |-> "error", text |-> "deletion forbidden for user with ID = 1"]

Called(op, id, data, result, stmts) ==
    [op |-> op, id |-> id, data |-> data, ret |-> result, stmts |-> stmts]

NoData == [k \in {} |-> NIL]

NoCall == Called("none", "", NoData, NoError, <<>>)

Create(data) ==
    /\ nOps < MaxOps
    /\ nOps' = nOps + 1
    /\ IF MissingRequired(Structure, data) # {}
       THEN \E col \in MissingRequired(Structure, data) :
               lastOp' = Called("Create", "", data, CannotBeNull(col), <<>>)
       ELSE \E columns \in KeyOrders(DOMAIN Structure), ok \in BOOLEAN :
               lastOp' = Called("Create", "", data, ExecResult(ok),
                                <<Executed(InsertStatement(Table, data, columns), ok)>>)
    /\ UNCHANGED <<Structure, Table, writer, whereVars, syncVars>>

Update(id, data) ==
    /\ nOps < MaxOps
    /\ nOps' = nOps + 1
    /\ IF MissingRequired(Structure, data) # {}
       THEN \E col \in MissingRequired(Structure, data) :
               lastOp' = Called("Update", id, data, CannotBeNull(col), <<>>)
       ELSE \E keys \in KeyOrders(DOMAIN data), ok \in BOOLEAN :
               lastOp' = Called("Update", id, data, ExecResult(ok),
                                <<Executed(UpdateStatement(Table, id, data, keys), ok)>>)
    /\ UNCHANGED <<Structure, Table, writer, whereVars, syncVars>>

\* CRUD.Delete, called on a plain CRUD
Delete(id) ==
    /\ writer = "crud"
    /\ nOps < MaxOps
    /\ nOps' = nOps + 1
    /\ \E ok \in BOOLEAN :
          lastOp' = Called("Delete", id, NoData, ExecResult(ok),
                           <<Executed(DeleteStatement(Table, id), ok)>>)
    /\ UNCHANGED <<Structure, Table, writer, whereVars, syncVars>>

\* UserCRUD.Delete, which shadows CRUD.Delete on a UserCRUD
UserDelete(id) ==
    /\ writer = "user"
    /\ nOps < MaxOps
    /\ nOps' = nOps + 1
    /\ IF Forbidden(id)
       THEN lastOp' = Called("Delete", id, NoData, DeletionForbidden, <<>>)
       ELSE \E ok \in BOOLEAN :
               lastOp' = Called("Delete", id, NoData, ExecResult(ok),
                                <<Executed(DeleteStatement(Table, id), ok)>>)
    /\ UNCHANGED <<Structure, Table, writer, whereVars, syncVars>>

----------------------------------------------------------------------------
(* The store, as Synchronize sees it.                                      *)
(*                                                                         *)
(* live is [exists, cols]: whether the table exists and, per live column,  *)
(* the row SHOW COLUMNS gives for it.  The store reports the type and the  *)
(* default of a column as the statement that defined it wrote them.  A     *)
(* statement that asks for what is already there (the table, the column,   *)
(* a primary key) fails; any statement may fail for a reason of the store. *)

Procs == {1, 2}

NoColumns == [c \in {} |-> 0]

Absent == [exists |-> FALSE, cols |-> NoColumns]

Column(type, null, key, default, extra) ==
    [COL_TYPE |-> type, NULL |-> null, KEY |-> key, DEFAULT |-> default,
     EXTRA |-> extra]

\* c.Structure[col]: a missing key gives the nil map, whose every property is ""
PropsOf(structure, col) ==
    IF col \in DOMAIN structure THEN structure[col] ELSE Props("", "", "", "")

\* the tail " NOT NULL DEFAULT d AUTO_INCREMENT" the statements share
Attributes(properties) ==
    (IF properties.NOT_NULL = "true" THEN " NOT NULL" ELSE "")
    \o (IF properties.DEFAULT # "" THEN " DEFAULT " \o properties.DEFAULT ELSE "")
    \o (IF properties.AUTO_INCREMENT = "true" THEN " AUTO_INCREMENT" ELSE "")

\* a data-definition statement: its text, and what the text asks of the store
Ddl(kind, text, col, defs) == [kind |-> kind, text |-> text, col |-> col, defs |-> defs]

NoStatement == Ddl("none", "", "", NoColumns)

\* the column a definition "col TYPE [NOT NULL] [DEFAULT d] [AUTO_INCREMENT]" makes
Defined(properties, key) ==
    Column(properties.TYPE,
           IF properties.NOT_NULL = "true" THEN "NO" ELSE "YES",
           key,
           properties.DEFAULT,
           IF properties.AUTO_INCREMENT = "true" THEN "auto_increment" ELSE "")

\* the CREATE TABLE of the branch exists == 0; columns is the order in which
\* `range` visited the structure, and the last AUTO_INCREMENT column visited
\* is the primary key ("" when there is none)
CreateTableStatement(table, structure, columns) ==
    LET autos == {i \in DOMAIN columns :
                    structure[columns[i]].AUTO_INCREMENT = "true"}
        primaryKeyColumn ==
            IF autos = {} THEN ""
            ELSE columns[CHOOSE i \in autos : \A j \in autos : j <= i]
        fieldDefinitions ==
            [i \in DOMAIN columns |->
                columns[i] \o " " \o structure[columns[i]].TYPE
                  \o Attributes(structure[columns[i]])]
    IN  Ddl("create",
            "CREATE TABLE " \o table \o " (" \o JoinStr(fieldDefinitions, ", ")
              \o ", PRIMARY KEY (" \o primaryKeyColumn \o "))",
            primaryKeyColumn,
            [c \in DOMAIN structure |->
                Defined(structure[c], IF c = primaryKeyColumn THEN "PRI" ELSE "")])

\* the statement the reconcile loop issues for col, given currentColumns
ReconcileStatement(table, structure, currentColumns, col) ==
    LET properties == PropsOf(structure, col)
    IN  IF col \in DOMAIN currentColumns
        THEN LET currentColInfo == currentColumns[col]
             IN  IF \/ currentColInfo.COL_TYPE # properties.TYPE
                    \/ (properties.NOT_NULL = "true" /\ currentColInfo.NULL = "YES")
                    \/ (properties.DEFAULT # ""
                          /\ currentColInfo.DEFAULT # properties.DEFAULT)
                 THEN Ddl("modify",
                          "ALTER TABLE " \o table \o " MODIFY " \o col \o " "
                            \o properties.TYPE \o Attributes(properties),
                          col, [c \in {col} |-> Defined(properties, "")])
                 ELSE NoStatement
        ELSE Ddl("add",
                 "ALTER TABLE " \o table \o " ADD COLUMN " \o col \o " "
                   \o properties.TYPE \o Attributes(properties),
                 col, [c \in {col} |-> Defined(properties, "")])

\* ColumnsToVisit with the live columns visited as well
ColumnsToVisitAll(structure, currentColumns) ==
    DOMAIN structure \cup DOMAIN currentColumns

\* the columns the reconcile loop visits: `range c.Structure`
ColumnsToVisit(structure, currentColumns) == DOMAIN structure

\* the statement of the last loop, for the AUTO_INCREMENT column col it stops at
PrimaryKeyStatement(table, currentColumns, col) ==
    IF col \in DOMAIN currentColumns /\ currentColumns[col].KEY # "PRI"
    THEN Ddl("primary",
             "ALTER TABLE " \o table \o " ADD PRIMARY KEY (" \o col \o ")",
             col, NoColumns)
    ELSE NoStatement

\* whether the store can carry the statement out
CanSucceed(table, stmt) ==
    CASE stmt.kind = "create"  -> ~table.exists
      [] stmt.kind = "add"     -> table.exists /\ stmt.col \notin DOMAIN table.cols
      [] stmt.kind = "modify"  -> table.exists /\ stmt.col \in DOMAIN table.cols
      [] stmt.kind = "primary" ->
            /\ table.exists
            /\ stmt.col \in DOMAIN table.cols
            /\ \A c \in DOMAIN table.cols : table.cols[c].KEY # "PRI"

\* the table after the store has carried the statement out
Apply(table, stmt) ==
    CASE stmt.kind = "create"  -> [exists |-> TRUE, cols |-> stmt.defs]
      [] stmt.kind = "add"     ->
            [table EXCEPT !.cols =
                [c \in DOMAIN @ \cup {stmt.col} |->
                    IF c = stmt.col THEN stmt.defs[c] ELSE @[c]]]
      [] stmt.kind = "modify"  ->
            [table EXCEPT !.cols[stmt.col] =
                [stmt.defs[stmt.col] EXCEPT !.KEY = table.cols[stmt.col].KEY]]
      [] stmt.kind = "primary" ->
            [table EXCEPT !.cols[stmt.col].KEY = "PRI"]

----------------------------------------------------------------------------
(* Synchronize, one action per round trip to the store.                    *)

SyncOk == [kind |-> "nil", text |-> "", query |-> ""]

\* fmt.Errorf("<what>: %s; query: %s", err, query)
SyncError(what, query) ==
    [kind |-> "error", text |-> what \o ": store error; query: " \o query,
     query |-> query]

\* ReturnsOnError with the error of the store dropped
ReturnsNever(ok) == FALSE

\* `if err != nil { return ... }` after a call of the store

ReturnsOnError(ok) == ~ok

\* CurrentColumns with the live columns read afresh at every use
CurrentColumnsLive(p) == live.cols

\* currentColumns of caller p: filled once from SHOW COLUMNS, read by both loops

CurrentColumns(p) == cur[p].cols

\* before `currentColumns := make(...)` has run
NotRead == [read |-> FALSE, cols |-> NoColumns]

Logged(p, stmt, ok) ==
    [p |-> p, call |-> calls[p], kind |-> stmt.kind, text |-> stmt.text,
     col |-> stmt.col, defs |-> stmt.defs, ok |-> ok]

\* DB.Exec of a data-definition statement by caller p
Exec(p, stmt, ok) ==
    /\ ok => CanSucceed(live, stmt)
    /\ ddl' = Append(ddl, Logged(p, stmt, ok))
    /\ live' = IF ok THEN Apply(live, stmt) ELSE live

Return(p, result) ==
    /\ pc' = [pc EXCEPT ![p] = "done"]
    /\ ret' = [ret EXCEPT ![p] = Append(@, result)]

\* a sole caller calls Synchronize up to MaxCalls times, one after the
\* other; callers that run at the same time make one call each
CallLimit == IF Cardinality(procs) = 1 THEN MaxCalls ELSE 1

existsQuery(table) ==
    "SELECT COUNT(*) FROM information_schema.tables WHERE table_schema = DATABASE() AND table_name = '"
      \o table \o "'"

\* the call, up to the result of the query that counts the tables of that name
CheckExists(p) ==
    /\ p \in procs
    /\ pc[p] \in {"idle", "done"}
    /\ calls[p] < CallLimit
    /\ calls' = [calls EXCEPT ![p] = @ + 1]
    /\ cur' = [cur EXCEPT ![p] = NotRead]
    /\ todo' = [todo EXCEPT ![p] = {}]
    /\ \E ok \in BOOLEAN :
          /\ exists' = [exists EXCEPT ![p] = IF ok /\ live.exists THEN 1 ELSE 0]
          /\ IF ReturnsOnError(ok)
             THEN /\ pc' = [pc EXCEPT ![p] = "done"]
                  /\ ret' = [ret EXCEPT ![p] =
                               Append(@, SyncError("failed to check if table exists",
                                                   existsQuery(Table)))]
             ELSE /\ pc' = [pc EXCEPT ![p] = "checked"]
                  /\ ret' = ret
    /\ UNCHANGED <<Structure, Table, writer, whereVars, writeVars,
                   live, live0, procs, ddl>>

\* exists == 0: CREATE TABLE
CreateTable(p) ==
    /\ p \in procs
    /\ pc[p] = "checked"
    /\ exists[p] = 0
    /\ \E columns \in KeyOrders(DOMAIN Structure), ok \in BOOLEAN :
          LET stmt == CreateTableStatement(Table, Structure, columns)
          IN  /\ Exec(p, stmt, ok)
              /\ IF ReturnsOnError(ok)
                 THEN Return(p, SyncError("failed to create table", stmt.text))
                 ELSE Return(p, SyncOk)
    /\ UNCHANGED <<Structure, Table, writer, whereVars, writeVars,
                   live0, procs, exists, cur, todo, calls>>

\* exists != 0: SHOW COLUMNS and the scan of its rows into currentColumns
ShowColumns(p) ==
    /\ p \in procs
    /\ pc[p] = "checked"
    /\ exists[p] # 0
    /\ \E ok \in BOOLEAN :
          IF ReturnsOnError(ok)
          THEN /\ Return(p, SyncError("failed to show columns",
                                      "SHOW COLUMNS FROM " \o Table))
               /\ UNCHANGED <<cur, todo>>
          ELSE /\ cur' = [cur EXCEPT ![p] = [read |-> TRUE, cols |-> live.cols]]
               /\ todo' = [todo EXCEPT ![p] = ColumnsToVisit(Structure, live.cols)]
               /\ pc' = [pc EXCEPT ![p] = "reconcile"]
               /\ ret' = ret
    /\ UNCHANGED <<Structure, Table, writer, whereVars, writeVars,
                   live, live0, procs, exists, calls, ddl>>

\* one turn of the loop that alters or adds the columns of the structure
ReconcileColumn(p) ==
    /\ p \in procs
    /\ pc[p] = "reconcile"
    /\ \E col \in todo[p] :
          LET stmt == ReconcileStatement(Table, Structure, CurrentColumns(p), col)
          IN  /\ todo' = [todo EXCEPT ![p] = @ \ {col}]
              /\ IF stmt = NoStatement
                 THEN UNCHANGED <<pc, ret, live, ddl>>
                 ELSE \E ok \in BOOLEAN :
                        /\ Exec(p, stmt, ok)
                        /\ IF ReturnsOnError(ok)
                           THEN Return(p, SyncError(
                                   IF stmt.kind = "modify"
                                   THEN "failed to alter table structure"
                                   ELSE "failed to add new column", stmt.text))
                           ELSE UNCHANGED <<pc, ret>>
    /\ UNCHANGED <<Structure, Table, writer, whereVars, writeVars,
                   live0, procs, exists, cur, calls>>

\* the loop that makes the AUTO_INCREMENT column the primary key, and return nil
EnsurePrimaryKey(p) ==
    /\ p \in procs
    /\ pc[p] = "reconcile"
    /\ todo[p] = {}
    /\ LET autos == {c \in DOMAIN Structure : Structure[c].AUTO_INCREMENT = "true"}
       IN  IF autos = {}
           THEN Return(p, SyncOk) /\ UNCHANGED <<live, ddl>>
           ELSE \E col \in autos :
                  LET stmt == PrimaryKeyStatement(Table, CurrentColumns(p), col)
                  IN  IF stmt = NoStatement
                      THEN Return(p, SyncOk) /\ UNCHANGED <<live, ddl>>
                      ELSE \E ok \in BOOLEAN :
                             /\ Exec(p, stmt, ok)
                             /\ IF ReturnsOnError(ok)
                                THEN Return(p, SyncError("failed to set primary key",
                                                         stmt.text))
                                ELSE Return(p, SyncOk)
    /\ UNCHANGED <<Structure, Table, writer, whereVars, writeVars,
                   live0, procs, exists, cur, todo, calls>>

----------------------------------------------------------------------------
(* PrepareWhere, called on the filter under two visiting orders.  The      *)
(* compiler keeps no state between calls, so a behaviour holds one call.   *)

PrepareWhereCall ==
    /\ ~res1.called
    /\ LET results == {PrepareWhere(Structure, o) : o \in Orders(filter)}
       IN  \E r1 \in results, r2 \in results :
              /\ res1' = Returned(r1)
              /\ res2' = Returned(r2)
    /\ UNCHANGED <<Structure, Table, writer, filter, writeVars, syncVars>>

----------------------------------------------------------------------------
(* Initial states and specifications.                                      *)

\* descriptors of a table with the columns id and name
SyncStructures ==
    LET ids   == {Props("int", n, "", a) : n \in {"true", "false"}, a \in {"true", "false"}}
        names == {Props("varchar(255)", n, d, "false") :
                    n \in {"true", "false"}, d \in {"", "0"}}
    IN  {[c \in {"id"} |-> i] : i \in ids}
        \cup {[c \in {"name"} |-> n] : n \in names}
        \cup {[c \in {"id", "name"} |-> IF c = "id" THEN i ELSE n] : i \in ids, n \in names}

\* the rows SHOW COLUMNS can give for a live column before the first call
LiveColumns(c) ==
    IF c = "legacy"
    THEN {Column("int", "YES", k, "", "") : k \in {"", "PRI"}}
    ELSE {Column(t, n, k, d, "") :
            t \in {"int", "varchar(255)"}, n \in {"YES", "NO"},
            k \in {"", "PRI"}, d \in {"", "0"}}

LiveNames == {"id", "name", "legacy"}

\* the live tables: absent, or some columns with at most one primary key
LiveTables ==
    {Absent} \cup
    UNION {{[exists |-> TRUE, cols |-> f] :
              f \in {g \in [S -> UNION {LiveColumns(c) : c \in S}] :
                       /\ \A c \in S : g[c] \in LiveColumns(c)
                       /\ Cardinality({c \in S : g[c].KEY = "PRI"}) <= 1}} :
           S \in (SUBSET LiveNames) \ {{}}}

DataKeys == {"id", "name", "email"}

\* the data maps: some keys, each with a value; the key name may hold nil
DataMaps ==
    UNION {{d \in [S -> {"x", NIL}] : \A k \in S : d[k] = NIL => k = "name"} :
             S \in SUBSET DataKeys}

Ids == {"1", "2", "01"}

WhereIdle == filter = <<>> /\ res1 = NoResult /\ res2 = NoResult

WriteIdle == lastOp = NoCall /\ nOps = 0

SyncIdle(callers, table) ==
    /\ live = table
    /\ live0 = table
    /\ procs = callers
    /\ pc = [p \in Procs |-> "idle"]
    /\ exists = [p \in Procs |-> 0]
    /\ cur = [p \in Procs |-> NotRead]
    /\ todo = [p \in Procs |-> {}]
    /\ ret = [p \in Procs |-> <<>>]
    /\ calls = [p \in Procs |-> 0]
    /\ ddl = <<>>

\* a UserCRUD and a filter
InitWhere ==
    /\ Structure \in WhereStructures
    /\ Table = "users"
    /\ writer = "user"
    /\ filter \in Filters(MaxNodes, 1)
    /\ res1 = NoResult
    /\ res2 = NoResult
    /\ WriteIdle
    /\ SyncIdle({}, Absent)

NextWhere == PrepareWhereCall

SpecWhere == InitWhere /\ [][NextWhere]_vars

\* a UserCRUD, or a CRUD over some descriptor
InitWrite ==
    /\ writer \in {"user", "crud"}
    /\ Structure \in IF writer = "user" THEN {userStructure} ELSE SyncStructures
    /\ Table = IF writer = "user" THEN "users" ELSE "items"
    /\ WhereIdle
    /\ WriteIdle
    /\ SyncIdle({}, Absent)

NextWrite ==
    \/ \E data \in DataMaps : Create(data)
    \/ \E id \in Ids, data \in DataMaps : Update(id, data)
    \/ \E id \in Ids : Delete(id)
    \/ \E id \in Ids : UserDelete(id)

SpecWrite == InitWrite /\ [][NextWrite]_vars

\* one caller that runs Synchronize again and again
InitSync ==
    /\ Structure \in SyncStructures
    /\ Table = "items"
    /\ writer = "crud"
    /\ WhereIdle
    /\ WriteIdle
    /\ \E table \in LiveTables : SyncIdle({1}, table)

NextSync ==
    \E p \in Procs :
        \/ CheckExists(p)
        \/ CreateTable(p)
        \/ ShowColumns(p)
        \/ ReconcileColumn(p)
        \/ EnsurePrimaryKey(p)

SpecSync == InitSync /\ [][NextSync]_vars

\* two callers that run Synchronize on the same table at the same time
ConcStructures ==
    {[c \in {"id", "name"} |->
        IF c = "id" THEN Props("int", "true", "", a)
        ELSE Props("varchar(255)", "true", "", "false")] : a \in {"true", "false"}}

ConcTables ==
    {Absent} \cup
    {[exists |-> TRUE, cols |-> [c \in S |-> Column("int", "NO", "", "", "")]] :
        S \in {{"id"}, {"legacy"}, {"id", "legacy"}}}

InitConc ==
    /\ Structure \in ConcStructures
    /\ Table = "items"
    /\ writer = "crud"
    /\ WhereIdle
    /\ WriteIdle
    /\ \E table \in ConcTables : SyncIdle({1, 2}, table)

SpecConc == InitConc /\ [][NextSync]_vars

----------------------------------------------------------------------------
(* The filter compiler: what the claims say of it.                         *)

\* a leaf's column: its key without one trailing '>', '<', '=' or '%'
LeafColumn(key) ==
    IF key # <<>> /\ key[Len(key)] \in {">", "<", "=", "%"}
    THEN SubSeq(key, 1, Len(key) - 1)
    ELSE key

\* a leaf's operator, by the suffix of its key
LeafOperator(key) ==
    IF key = <<>> THEN <<"=">>
    ELSE CASE key[Len(key)] = ">" -> <<">">>
           [] key[Len(key)] = "<" -> <<"<">>
           [] key[Len(key)] = "%" -> <<"L", "I", "K", "E">>
           [] OTHER -> <<"=">>

IsGroup(entry) == entry.value.t = "map"

\* the unknown-field errors of the leaves of a tree, at every depth
RECURSIVE UnknownLeaves(_)
UnknownLeaves(entries) ==
    IF entries = <<>> THEN <<>>
    ELSE (IF IsGroup(Head(entries)) THEN UnknownLeaves(Head(entries).value.m)
          ELSE IF Str(LeafColumn(Head(entries).key)) \in DOMAIN Structure THEN <<>>
          ELSE <<"field '" \o Str(LeafColumn(Head(entries).key))
                   \o "' does not exist in the structure">>)
         \o UnknownLeaves(Tail(entries))

\* C1: the error list PrepareWhere returns holds exactly one unknown-field
\* error for each leaf, at any depth, whose column is not in the descriptor,
\* also when the tree has valid leaves and the predicate is not empty.
C1_EveryUnknownLeafReported ==
    \A r \in {res1, res2} :
        (r.called /\ ~r.panic) => BagOf(r.errs) = BagOf(UnknownLeaves(filter))

\* the text a scalar is written as
ScalarText(value) == IF value.t = "string" THEN value.s ELSE Itoa(value.n)

\* the reference compilation: the predicates a level may compile to, its
\* clauses in any order
RECURSIVE Reference(_, _), ReferenceClauses(_)
ReferenceClauses(entries) ==
    IF entries = <<>> THEN {<<>>}
    ELSE LET e == Head(entries)
             own ==
                 IF IsGroup(e)
                 THEN {IF g = <<>> THEN <<>> ELSE <<<<"(">> \o g \o <<")">>>> :
                         g \in Reference(e.value.m,
                                  IF HasPrefix(e.key, OR_TAG) THEN <<"O", "R">>
                                  ELSE <<"A", "N", "D">>)}
                 ELSE IF Str(LeafColumn(e.key)) \notin DOMAIN Structure THEN {<<>>}
                 ELSE {<<LeafColumn(e.key) \o <<" ">> \o LeafOperator(e.key)
                           \o <<" ", "\"">>
                           \o (IF LeafOperator(e.key) = <<"L", "I", "K", "E">>
                               THEN <<"%">> \o ScalarText(e.value) \o <<"%">>
                               ELSE ScalarText(e.value))
                           \o <<"\"">>>>}
         IN  {o \o r : o \in own, r \in ReferenceClauses(Tail(entries))}

Reference(entries, logic) ==
    {Join(q, <<" ">> \o logic \o <<" ">>) :
        q \in UNION {Perms(cs) : cs \in ReferenceClauses(entries)}}

\* C6: the predicate PrepareWhere returns is the reference compilation of
\* the filter, up to the order of the clauses of a level, for every filter
\* over the keys, suffixes and values of the model.
C6_PredicateIsReference ==
    \A r \in {res1, res2} :
        r.called => (~r.panic /\ r.pred \in Reference(filter, <<"A", "N", "D">>))

\* C6 for the calls that return: whenever PrepareWhere returns, its
\* predicate is the reference compilation.
C6_ReturnedPredicateIsReference ==
    \A r \in {res1, res2} :
        (r.called /\ ~r.panic) => r.pred \in Reference(filter, <<"A", "N", "D">>)

C6_Witness ==
    /\ res1.called /\ ~res1.panic
    /\ \E i \in DOMAIN filter : IsGroup(filter[i]) /\ Len(filter[i].value.m) = 2
    /\ \E i \in DOMAIN res1.pred : res1.pred[i] = "("
    /\ \E i \in DOMAIN res1.pred : res1.pred[i] = "%"

\* the clauses of one level of a predicate: the predicate cut at the
\* " AND " and " OR " that stand outside quotes and parentheses
RECURSIVE Cut(_, _, _, _, _)
Cut(s, i, depth, quoted, start) ==
    IF i > Len(s)
    THEN [clauses |-> IF s = <<>> THEN <<>> ELSE <<SubSeq(s, start, Len(s))>>,
          logic |-> {}]
    ELSE IF quoted THEN Cut(s, i + 1, depth, s[i] # "\"", start)
    ELSE IF s[i] = "\"" THEN Cut(s, i + 1, depth, TRUE, start)
    ELSE IF s[i] = "(" THEN Cut(s, i + 1, depth + 1, FALSE, start)
    ELSE IF s[i] = ")" THEN Cut(s, i + 1, depth - 1, FALSE, start)
    ELSE IF depth = 0 /\ i + 4 <= Len(s) /\ SubSeq(s, i, i + 4) = <<" ", "A", "N", "D", " ">>
         THEN LET rest == Cut(s, i + 5, 0, FALSE, i + 5)
              IN  [clauses |-> <<SubSeq(s, start, i - 1)>> \o rest.clauses,
                   logic |-> rest.logic \cup {"AND"}]
    ELSE IF depth = 0 /\ i + 3 <= Len(s) /\ SubSeq(s, i, i + 3) = <<" ", "O", "R", " ">>
         THEN LET rest == Cut(s, i + 4, 0, FALSE, i + 4)
              IN  [clauses |-> <<SubSeq(s, start, i - 1)>> \o rest.clauses,
                   logic |-> rest.logic \cup {"OR"}]
    ELSE Cut(s, i + 1, depth, FALSE, start)

\* a predicate as what it says: per level, the logic that joins the clauses
\* and how often each clause occurs, a clause in parentheses being a level
RECURSIVE Levels(_)
Levels(s) ==
    LET cut == Cut(s, 1, 0, FALSE, 1)
        item(c) ==
            IF Head(c) = "(" /\ c[Len(c)] = ")"
            THEN [text |-> <<>>, sub |-> {Levels(SubSeq(c, 2, Len(c) - 1))}]
            ELSE [text |-> c, sub |-> {}]
        items == [i \in DOMAIN cut.clauses |-> item(cut.clauses[i])]
    IN  [logic |-> cut.logic,
         items |-> {[item |-> x,
                     n |-> Cardinality({i \in DOMAIN items : items[i] = x})] :
                       x \in Range(items)}]

\* C10: the result of PrepareWhere does not depend on the order in which
\* the entries of the filter maps are visited: two visiting orders give
\* predicates with the same clauses and logic at every level, and the same
\* errors, each as often.
C10_VisitingOrderIrrelevant ==
    res1.called =>
        /\ res1.panic = res2.panic
        /\ Levels(res1.pred) = Levels(res2.pred)
        /\ BagOf(res1.errs) = BagOf(res2.errs)

C10_Witness ==
    /\ res1.called /\ ~res1.panic
    /\ res1.pred # res2.pred
    /\ \E i \in DOMAIN res1.pred : res1.pred[i] = "("

C10_WitnessErrors ==
    /\ res1.called /\ ~res1.panic
    /\ res1.errs # res2.errs

----------------------------------------------------------------------------
(* The record writers: what the claims say of them.                        *)

\* the columns a write must supply: NOT NULL, no default, not auto-increment
RequiredColumns ==
    {c \in DOMAIN Structure :
        /\ Structure[c].NOT_NULL = "true"
        /\ Structure[c].DEFAULT = ""
        /\ Structure[c].AUTO_INCREMENT # "true"}

\* C4: Create and Update alike return an error naming a missing required
\* column, and issue no statement, when the input has no key for a column
\* that is NOT NULL, has no default and is not auto-increment (Update also
\* when the caller did not mean to change that column); when every such
\* column has a key, exactly one insert, or one update by id, is issued.
C4_RequiredColumnsEnforced ==
    lastOp.op \in {"Create", "Update"} =>
        LET missing == RequiredColumns \ DOMAIN lastOp.data
        IN  IF missing # {}
            THEN /\ lastOp.stmts = <<>>
                 /\ \E c \in missing :
                       lastOp.ret = [kind |-> "error",
                                     text |-> "field '" \o c \o "' cannot be null"]
            ELSE /\ Len(lastOp.stmts) = 1
                 /\ lastOp.op = "Create" => lastOp.stmts[1].kind = "insert"
                 /\ lastOp.op = "Update" =>
                       /\ lastOp.stmts[1].kind = "update"
                       /\ lastOp.stmts[1].args[Len(lastOp.stmts[1].args)] = lastOp.id

\* an Update that sets one column is rejected for another, required one
C4_Witness ==
    /\ lastOp.op = "Update"
    /\ lastOp.ret.kind = "error"
    /\ lastOp.stmts = <<>>
    /\ DOMAIN lastOp.data # {}
    /\ DOMAIN lastOp.data \subseteq RequiredColumns

\* C5: on a user-record writer, after any sequence of operations, Delete
\* of id "1" returns a permission error and issues no statement; Delete of
\* any other id issues exactly one delete by id for that id and returns
\* what the store returned.
C5_ProtectedRow ==
    (writer = "user" /\ lastOp.op = "Delete") =>
        IF lastOp.id = "1"
        THEN /\ lastOp.stmts = <<>>
             /\ lastOp.ret.kind = "error"
             /\ lastOp.ret.text = "deletion forbidden for user with ID = 1"
        ELSE /\ Len(lastOp.stmts) = 1
             /\ lastOp.stmts[1].kind = "delete"
             /\ lastOp.stmts[1].query = "DELETE FROM users WHERE id = ?"
             /\ lastOp.stmts[1].args = <<lastOp.id>>
             /\ lastOp.ret.kind = IF lastOp.stmts[1].ok THEN "nil" ELSE "store"

C5_Witness ==
    /\ writer = "user"
    /\ lastOp.op = "Delete"
    /\ lastOp.id = "1"
    /\ lastOp.stmts = <<>>
    /\ nOps > 1

----------------------------------------------------------------------------
(* Synchronize: what the claims say of it.                                 *)

\* a live column has the type, nullability and default its descriptor asks for
Matches(info, properties) ==
    /\ info.COL_TYPE = properties.TYPE
    /\ info.NULL = (IF properties.NOT_NULL = "true" THEN "NO" ELSE "YES")
    /\ info.DEFAULT = properties.DEFAULT

AutoIncrementColumns ==
    {c \in DOMAIN Structure : Structure[c].AUTO_INCREMENT = "true"}

\* the table was absent, or held a strict subset of the descriptor's columns
AbsentOrStrictSubset ==
    \/ ~live0.exists
    \/ /\ DOMAIN live0.cols \subseteq DOMAIN Structure
       /\ DOMAIN live0.cols # DOMAIN Structure
       /\ \A c \in DOMAIN live0.cols :
             /\ Matches(live0.cols[c], Structure[c])
             /\ live0.cols[c].KEY = "PRI" => c \in AutoIncrementColumns

\* the first call of caller 1 has returned nil and nothing has run since
FirstCallSucceeded ==
    /\ calls[1] = 1
    /\ pc[1] = "done"
    /\ ret[1][1].kind = "nil"

Synchronized ==
    /\ live.exists
    /\ \A c \in DOMAIN Structure :
          c \in DOMAIN live.cols /\ Matches(live.cols[c], Structure[c])
    /\ \A c \in AutoIncrementColumns :
          c \in DOMAIN live.cols /\ live.cols[c].KEY = "PRI"

\* C2: from a table that is absent or holds a strict subset of the
\* descriptor's columns, a Synchronize whose statements all succeed ends
\* with a live table that has every descriptor column with the descriptor's
\* type, nullability and default, and the auto-increment column as primary
\* key, also when that column was one of the missing ones.
C2_SynchronizeReachesDescriptor ==
    (AbsentOrStrictSubset /\ FirstCallSucceeded) => Synchronized

\* C2 without its last case: the same, when the table was absent or the
\* auto-increment column was among the columns the table held.
C2_ExceptMissingAutoIncrement ==
    (/\ AbsentOrStrictSubset
     /\ FirstCallSucceeded
     /\ live0.exists => AutoIncrementColumns \subseteq DOMAIN live0.cols)
        => Synchronized

\* C3: when a first Synchronize succeeds, a second one with the same
\* descriptor and no change in between issues no data-definition statement,
\* from a table that was absent or held any subset of the descriptor's
\* columns, with any attributes.
C3_SecondCallIssuesNothing ==
    (/\ calls[1] >= 1 /\ Len(ret[1]) >= 1 /\ ret[1][1].kind = "nil"
     /\ live0.exists => DOMAIN live0.cols \subseteq DOMAIN Structure)
        => \A i \in DOMAIN ddl : ~(ddl[i].p = 1 /\ ddl[i].call = 2)

\* C3 without the case of C2: the same, when the table was absent or the
\* auto-increment column was among the columns the table held.
C3_ExceptMissingAutoIncrement ==
    (/\ calls[1] >= 1 /\ Len(ret[1]) >= 1 /\ ret[1][1].kind = "nil"
     /\ live0.exists => AutoIncrementColumns \subseteq DOMAIN live0.cols)
        => \A i \in DOMAIN ddl : ~(ddl[i].p = 1 /\ ddl[i].call = 2)

LiveOnly == DOMAIN live0.cols \ DOMAIN Structure

\* C7: Synchronize never changes or removes a live column that is not in
\* the descriptor: it stays with its type, nullability, key role and
\* default, and no statement Synchronize issues names it.
C7_LiveOnlyColumnsUntouched ==
    \A c \in LiveOnly :
        /\ live.exists
        /\ c \in DOMAIN live.cols
        /\ live.cols[c] = live0.cols[c]
        /\ \A i \in DOMAIN ddl : ddl[i].col # c /\ c \notin DOMAIN ddl[i].defs

C7_Witness ==
    /\ LiveOnly # {}
    /\ pc[1] = "done"
    /\ Len(ddl) >= 2
    /\ \A i \in DOMAIN ddl : ddl[i].ok
    /\ \E i \in DOMAIN ddl : ddl[i].kind = "modify"
    /\ \E i \in DOMAIN ddl : ddl[i].kind = "add"

\* the live table after the statements of a log that succeeded, in order
RECURSIVE Replay(_, _)
Replay(table, log) ==
    IF log = <<>> THEN table
    ELSE Replay(IF Head(log).ok THEN Apply(table, Head(log)) ELSE table, Tail(log))

\* C8: when a data-definition statement of Synchronize fails, the call
\* returns an error that carries the statement's text and issues no further
\* statement; the statements that succeeded before stay applied.
C8_StopsAtFirstFailure ==
    /\ \A i \in DOMAIN ddl :
          ~ddl[i].ok =>
             /\ \A j \in DOMAIN ddl :
                   j > i => ~(ddl[j].p = ddl[i].p /\ ddl[j].call = ddl[i].call)
             /\ Len(ret[ddl[i].p]) >= ddl[i].call
             /\ ret[ddl[i].p][ddl[i].call].kind = "error"
             /\ ret[ddl[i].p][ddl[i].call].query = ddl[i].text
    /\ live = Replay(live0, ddl)

C8_Witness ==
    \E i \in DOMAIN ddl :
        /\ i > 1
        /\ ~ddl[i].ok
        /\ ddl[i - 1].ok /\ ddl[i - 1].call = ddl[i].call
        /\ ddl[i].kind \in {"modify", "add", "primary"}
        /\ pc[1] = "done"
        /\ live # live0

\* caller p has, in its current call, issued a statement of that kind for col
Issued(p, kind, col) ==
    \E i \in DOMAIN ddl :
        /\ ddl[i].p = p /\ ddl[i].call = calls[p]
        /\ ddl[i].kind = kind /\ ddl[i].col = col

\* C9: Synchronize is not safe to run concurrently: when both callers have
\* read the live columns before either added a descriptor column, both
\* decide it is missing and both issue add-column for it; likewise a caller
\* that found the table absent issues create-table whatever the other did.
C9_BothCallersAdd ==
    /\ \A c \in DOMAIN Structure :
          (\A p \in procs : cur[p].read /\ c \notin DOMAIN cur[p].cols /\ c \notin todo[p])
             => \A p \in procs : Issued(p, "add", c)
    /\ \A p \in procs :
          (/\ pc[p] = "done" /\ exists[p] = 0
           /\ ret[p][calls[p]].query # existsQuery(Table))
             => \E i \in DOMAIN ddl :
                   ddl[i].p = p /\ ddl[i].call = calls[p] /\ ddl[i].kind = "create"

C9_Witness ==
    \E c \in DOMAIN Structure :
        /\ c \in DOMAIN live.cols
        /\ \A p \in {1, 2} : cur[p].read /\ c \notin DOMAIN cur[p].cols
        /\ Issued(1, "add", c)
        /\ Issued(2, "add", c)

C9_WitnessCreate ==
    \E i, j \in DOMAIN ddl :
        /\ ddl[i].kind = "create" /\ ddl[i].p = 1 /\ ddl[i].ok
        /\ ddl[j].kind = "create" /\ ddl[j].p = 2 /\ ~ddl[j].ok

====
